---- MODULE Spec2Model ----
(***************************************************************************)
(* Model of the data toolkit of Gender-Equality-and-Sustainability:        *)
(*   src/completeness.py  Completeness_Ranker.rank_indicators_by_completeness *)
(*   src/data_handler.py  Data_Handler.reshape_long_HDI, get_data_HDI,     *)
(*                        get_data_EPI                                     *)
(* Every call is one run of the state machine: pc = "idle" is the state    *)
(* before a call, the Call actions draw the arguments, and pc = "done"     *)
(* carries the outcome: ret (the value returned) or exc (the exception     *)
(* that reached the caller).                                               *)
(*                                                                         *)
(* Text (column names, country names, mapping keys) is a sequence of       *)
(* one-character strings, so that startswith, rsplit, lower, strip and     *)
(* int() are computed character by character.                              *)
(***************************************************************************)
EXTENDS Integers, Sequences, FiniteSets, TLC

VARIABLES
    pc,             \* position of the running call
    op,             \* which function was called
    ret,            \* value returned to the caller (None before the return)
    exc,            \* exception that propagated to the caller ("none" if none)
    diag,           \* TRUE once the ranker printed "Error fetching data"
    \* ---- rank_indicators_by_completeness
    catalog_ok,     \* FALSE when wbdata.get_indicators raised
    indicators,     \* the catalog wbdata.get_indicators returned
    indicator_dict, \* dict code -> name, as the sequence of its items
    start_year, end_year, top_n,
    pos,            \* number of keys of indicator_dict the fetch loop has visited
    all_data,       \* rows (indicator, country, date) accumulated so far
    fetched,        \* history: codes passed to wbdata.get_data, in order
    failed,         \* history: codes whose fetch or processing raised
    results,        \* list of (code, name, completeness, count)
    total_possible,
    top,            \* summary.sort_values(by="Completeness", ascending=False)
    \* ---- reshape_long_HDI / get_data_HDI
    df,             \* the wide table given to reshape_long_HDI
    mapping,        \* the `indicators` dict of the data handler calls
    countries,      \* the `countries` argument
    long_df,        \* the table reshape_long_HDI produced inside get_data_HDI
    \* ---- get_data_EPI
    epi_map,        \* the `indicators` dict of get_data_EPI, as its key sequence
    folder,         \* the folder: file of each variable
    all_dfs         \* the per-indicator long tables loaded so far

vars == <<pc, op, ret, exc, diag, catalog_ok, indicators, indicator_dict,
          start_year, end_year, top_n, pos, all_data, fetched, failed, results,
          total_possible, top, df, mapping, countries, long_df, epi_map, folder,
          all_dfs>>

rankerVars == <<catalog_ok, indicators, indicator_dict, pos, all_data, fetched,
                failed, results, total_possible, top, top_n, diag>>
handlerVars == <<df, mapping, countries, long_df>>
epiVars == <<epi_map, folder, all_dfs>>

\* an absent value of a table (a cell, a metric_name)
NaN == "NaN"

\* an optional argument: None is the empty sequence, a value x is <<x>>
None == <<>>
Some(x) == <<x>>

---------------------------------------------------------------------------
(* Bounds of the model *)

MaxCat == 3        \* longest catalog
MaxCols == 2       \* most non-id columns of a wide table
MaxRows == 2       \* most rows of a wide table

Codes == {"c1", "c2", "c3"}      \* indicator codes of the provider
Countries == {"A", "B"}          \* countries the provider reports
Years == {0, 1, 2}               \* start_year, end_year of the ranker
TopNs == {1, 10}                 \* top_n of the ranker
YearArgs == {None, Some(1), Some(2)}   \* start_year, end_year of the loaders

\* datetime.MINYEAR: datetime.datetime(year, 1, 1) raises ValueError below it
MINYEAR == 1

---------------------------------------------------------------------------
(* Text *)

Digits == {"0", "1", "2", "3", "4", "5", "6", "7", "8", "9"}

DigitVal(c) ==
    CASE c = "0" -> 0 [] c = "1" -> 1 [] c = "2" -> 2 [] c = "3" -> 3
      [] c = "4" -> 4 [] c = "5" -> 5 [] c = "6" -> 6 [] c = "7" -> 7
      [] c = "8" -> 8 [] c = "9" -> 9

\* str.lower on one character (the letters the model's texts use)
LowerChar(c) ==
    CASE c = "E" -> "e" [] c = "G" -> "g" [] c = "U" -> "u" [] c = "F" -> "f"
      [] c = "X" -> "x" [] OTHER -> c

\* str.lower
Lower(s) == [i \in 1..Len(s) |-> LowerChar(s[i])]

\* str.strip: leading and trailing blanks removed
RECURSIVE LStrip(_)
LStrip(s) == IF s # <<>> /\ Head(s) = " " THEN LStrip(Tail(s)) ELSE s

RECURSIVE RStrip(_)
RStrip(s) ==
    IF s # <<>> /\ s[Len(s)] = " " THEN RStrip(SubSeq(s, 1, Len(s) - 1)) ELSE s

Strip(s) == RStrip(LStrip(s))

\* str.replace(' ', '_')
ReplaceSpace(s) == [i \in 1..Len(s) |-> IF s[i] = " " THEN "_" ELSE s[i]]

\* df.columns.str.strip().str.lower().str.replace(' ', '_')
Standardize(s) == ReplaceSpace(Lower(Strip(s)))

\* str.startswith
StartsWith(s, p) == Len(p) <= Len(s) /\ SubSeq(s, 1, Len(p)) = p

\* position of the last '_' of s, 0 when there is none
LastUnderscore(s) ==
    LET P == {i \in 1..Len(s) : s[i] = "_"}
    IN  IF P = {} THEN 0 ELSE CHOOSE i \in P : \A j \in P : j <= i

\* str.rsplit('_', n=1): the parts around the last '_'
RSplit(s) ==
    LET k == LastUnderscore(s)
    IN  IF k = 0 THEN <<s>>
        ELSE <<SubSeq(s, 1, k - 1), SubSeq(s, k + 1, Len(s))>>

\* whether int(s) succeeds: a non-empty run of decimal digits
IsInt(s) == s # <<>> /\ \A i \in 1..Len(s) : s[i] \in Digits

\* int(s)
RECURSIVE ParseInt(_)
ParseInt(s) ==
    IF s = <<>> THEN 0
    ELSE 10 * ParseInt(SubSeq(s, 1, Len(s) - 1)) + DigitVal(s[Len(s)])

---------------------------------------------------------------------------
(* reshape_long_HDI *)

\* A wide table: ids says whether the id columns iso3, country, region are all
\* present; cols are the names of the other columns, in table order; a row is
\* its country and one cell per column of cols.
\* A mapping (dict) is a function from its keys to the readable names.

\* any(col.startswith(prefix + "_") for prefix in indicators.keys())
IsValueVar(col, inds) ==
    \E prefix \in DOMAIN inds : StartsWith(col, prefix \o <<"_">>)

\* the positions (in cols) of value_vars
ValueVarIdx(d, inds) ==
    LET S == {i \in 1..Len(d.cols) : IsValueVar(d.cols[i], inds)}
        RECURSIVE Asc(_, _)
        Asc(T, acc) ==
            IF T = {} THEN acc
            ELSE LET m == CHOOSE x \in T : \A y \in T : x <= y
                 IN  Asc(T \ {m}, Append(acc, m))
    IN  Asc(S, <<>>)

\* df.melt(id_vars, value_vars, 'metric_year', 'value'): one row per (value
\* column, input row), columns outermost; a cell is copied as it is
Melt(d, inds) ==
    LET vv == ValueVarIdx(d, inds)
        R == Len(d.rows)
    IN  [k \in 1..(R * Len(vv)) |->
            LET c == vv[((k - 1) \div R) + 1]
                r == ((k - 1) % R) + 1
            IN  [country     |-> d.rows[r].country,
                 metric_year |-> d.cols[c],
                 value       |-> d.rows[r].cells[c]]]

\* variant of MetricName: a lookup indicators[metric], which raises on a missing key
MapCrash(metric, inds) ==
    IF metric \in DOMAIN inds THEN [err |-> "none", v |-> inds[metric]]
    ELSE [err |-> "KeyError", v |-> NaN]

\* long_df['metric'].map(indicators): a key's name, NaN for a metric that is
\* no key of the dict
MetricName(metric, inds) ==
    IF metric \in DOMAIN inds THEN [err |-> "none", v |-> inds[metric]]
    ELSE [err |-> "none", v |-> NaN]

\* long_df[['metric', 'year']] = ...rsplit('_', n=1, expand=True): on a table
\* of no rows the expansion has no columns, and assigning it to two keys raises
\* ValueError("Columns must be same length as key")
SplitAssign(melted) == IF Len(melted) = 0 THEN "ValueError" ELSE "none"

\* the whole of reshape_long_HDI: [err, rows]
reshape_long_HDI(d, inds) ==
    IF ~d.ids THEN [err |-> "KeyError", rows |-> <<>>]
    ELSE
    LET melted == Melt(d, inds)
        parts(k) == RSplit(melted[k].metric_year)
    IN  IF SplitAssign(melted) # "none"
        THEN [err |-> SplitAssign(melted), rows |-> <<>>]
        ELSE IF \E k \in 1..Len(melted) : ~IsInt(parts(k)[2])
        THEN [err |-> "ValueError", rows |-> <<>>]
        ELSE IF \E k \in 1..Len(melted) :
                    MetricName(parts(k)[1], inds).err # "none"
        THEN [err |-> "KeyError", rows |-> <<>>]
        ELSE [err  |-> "none",
              rows |-> [k \in 1..Len(melted) |->
                          [country     |-> melted[k].country,
                           value       |-> melted[k].value,
                           metric      |-> parts(k)[1],
                           year        |-> ParseInt(parts(k)[2]),
                           metric_name |-> MetricName(parts(k)[1], inds).v]]]

---------------------------------------------------------------------------
(* get_data_HDI *)

\* the countries argument: [kind |-> "none"], a str [kind |-> "str", v |-> text]
\* or a list of str [kind |-> "list", v |-> texts]
\* if isinstance(countries, str): countries = [countries]
CountryList(cs) == IF cs.kind = "str" THEN <<cs.v>> ELSE cs.v

\* long_df['country'].str.lower().isin([c.lower() for c in countries])
CountryKeep(country, cs) ==
    \/ cs.kind = "none"
    \/ /\ cs.kind # "none"
       /\ \E i \in 1..Len(CountryList(cs)) :
              Lower(country) = Lower(CountryList(cs)[i])

\* variant of YearKeep: strict comparisons, which drop the bounds themselves
YearKeepStrict(year, sy, ey) ==
    /\ (sy # None => year > sy[1])
    /\ (ey # None => year < ey[1])

\* the year filter: a bound that is None is not applied
YearKeep(year, sy, ey) ==
    /\ (sy # None => year >= sy[1])
    /\ (ey # None => year <= ey[1])

\* df.columns standardized (the id columns are standardized with the others)
StandardizeColumns(d) ==
    [d EXCEPT !.cols = [i \in 1..Len(d.cols) |-> Standardize(d.cols[i])]]

\* lines 63-75 of get_data_HDI: the filters and reset_index on the long table
FilterLong(rows, cs, sy, ey) ==
    LET byCountry == SelectSeq(rows, LAMBDA r : CountryKeep(r.country, cs))
    IN  SelectSeq(byCountry, LAMBDA r : YearKeep(r.year, sy, ey))

---------------------------------------------------------------------------
(* rank_indicators_by_completeness *)

NameOf(code) ==
    CASE code = "c1" -> "n1" [] code = "c2" -> "n2" [] code = "c3" -> "n3"
      [] OTHER -> "n"

\* the provider's codes, in the order used to name them
CodeOrder == <<"c1", "c2", "c3">>

\* the catalogs wbdata.get_indicators may return: lists of {id, name}, an id
\* possibly listed more than once. The codes are interchangeable, so they are
\* named by first appearance: the first id of a catalog is c1, the next new
\* one c2, and so on
Catalogs ==
    {cat \in UNION {[1..n -> {[id |-> c, name |-> NameOf(c)] : c \in Codes}] :
                        n \in 0..MaxCat} :
        \A k \in 1..Len(cat) :
            \E j \in 1..Len(CodeOrder) :
                /\ cat[k].id = CodeOrder[j]
                /\ \A i \in 1..(j - 1) :
                      \E h \in 1..(k - 1) : cat[h].id = CodeOrder[i]}

\* {ind['id']: ind['name'] for ind in indicators}: the items of the dict, a key
\* at the place of its first occurrence, with the name of its last one
RECURSIVE DictItems(_, _)
DictItems(inds, acc) ==
    IF inds = <<>> THEN acc
    ELSE LET h == Head(inds)
             at == {i \in 1..Len(acc) : acc[i].code = h.id}
         IN  DictItems(Tail(inds),
                IF at = {} THEN Append(acc, [code |-> h.id, name |-> h.name])
                ELSE [i \in 1..Len(acc) |->
                        IF i \in at THEN [code |-> h.id, name |-> h.name]
                        ELSE acc[i]])

\* the years of the requested range, start_year..end_year
RangeYears(sy, ey) == {y \in Years : sy <= y /\ y <= ey}

\* what the provider answers for one indicator: kind "raise" (wbdata.get_data
\* raises), "badrec" (a record of the answer lacks a field, so reading it
\* raises inside the comprehension) or "ok"; status gives every (country,
\* year) cell of the range as absent, with a null value, or with a value
Responses(sy, ey) ==
    {[kind |-> "raise", status |-> <<>>]} \cup
    [kind : {"ok", "badrec"},
     status : [Countries \X RangeYears(sy, ey) -> {"absent", "null", "value"}]]

\* the records of an answer that pass `if d['value'] is not None`
ValueRows(code, resp) ==
    {<<code, cell[1], cell[2]>> : cell \in
        {c \in DOMAIN resp.status : resp.status[c] = "value"}}

\* variant of FetchRows: rows appended one by one, so those read before the failure stay
FetchRowsPartial(code, resp) ==
    IF resp.kind \in {"ok", "badrec"} THEN ValueRows(code, resp) ELSE {}

\* the rows one pass of the fetch loop adds to all_data: the comprehension is
\* built whole before extend, so an answer that raises adds nothing
FetchRows(code, resp) ==
    IF resp.kind = "ok" THEN ValueRows(code, resp) ELSE {}

\* variant of TotalPossible: the range counted as end_year - start_year
TotalPossibleNoPlusOne(data, sy, ey) ==
    Cardinality({r[2] : r \in data}) * (ey - sy)

\* len(df['country'].unique()) * (end_year - start_year + 1)
TotalPossible(data, sy, ey) ==
    Cardinality({r[2] : r \in data}) * (ey - sy + 1)

\* count / total_possible if total_possible > 0 else 0, as the fraction
\* <<numerator, denominator>>
Ratio(count, total) == IF total > 0 THEN <<count, total>> ELSE <<0, 1>>

\* a >= b for fractions with positive denominators
FracGE(a, b) == a[1] * b[2] >= b[1] * a[2]

\* one pass of the completeness loop: (code, name, completeness, count)
ResultRow(item, data, total) ==
    LET mine == {r \in data : r[1] = item.code}
    IN  [code |-> item.code, name |-> item.name,
         completeness |-> Ratio(Cardinality(mine), total),
         count |-> Cardinality(mine)]

\* variant of CalcResults: the denominator taken from each indicator's own countries
CalcResultsOwnCountries(items, data, sy, ey) ==
    [i \in 1..Len(items) |->
        ResultRow(items[i], data,
                  TotalPossible({r \in data : r[1] = items[i].code}, sy, ey))]

\* lines 43-50: total_possible is computed once, before the loop
CalcResults(items, data, sy, ey) ==
    LET total == TotalPossible(data, sy, ey)
    IN  [i \in 1..Len(items) |-> ResultRow(items[i], data, total)]

Perms(n) == {p \in [1..n -> 1..n] : \A i, j \in 1..n : i # j => p[i] # p[j]}

\* variant of SortValues: ascending order
SortValuesAscending(rows) ==
    {[i \in 1..Len(rows) |-> rows[p[i]]] : p \in
        {q \in Perms(Len(rows)) : \A i \in 1..(Len(rows) - 1) :
            FracGE(rows[q[i + 1]].completeness, rows[q[i]].completeness)}}

\* summary.sort_values(by="Completeness", ascending=False): the default kind
\* is quicksort, which is not stable, so every ordering of the rows with
\* non-increasing completeness is a possible outcome
SortValues(rows) ==
    {[i \in 1..Len(rows) |-> rows[p[i]]] : p \in
        {q \in Perms(Len(rows)) : \A i \in 1..(Len(rows) - 1) :
            FracGE(rows[q[i]].completeness, rows[q[i + 1]].completeness)}}

\* variant of Returned: top.head(top_n)
ReturnedHead(t, n) == SubSeq(t, 1, IF n < Len(t) THEN n ELSE Len(t))

\* `return top, df`: top_n is not applied
Returned(t, n) == t

---------------------------------------------------------------------------
(* get_data_EPI *)

EpiVars == {"B", "C"}            \* variable abbreviations

\* a file {VAR}_ind_na.csv of the folder: state "absent"; "bad" (it exists and
\* loading it raises: an id column is missing, or a year column's suffix is
\* no integer); or "ok" with the long rows (country, year) its melt gives
EpiFiles ==
    {[state |-> "absent", rows |-> <<>>], [state |-> "bad", rows |-> <<>>],
     [state |-> "ok", rows |-> <<>>],
     [state |-> "ok", rows |-> <<[country |-> <<"U">>, year |-> 1],
                                 [country |-> <<"f">>, year |-> 2]>>]}

\* the dicts: sequences of distinct keys
EpiMaps ==
    {m \in UNION {[1..n -> EpiVars] : n \in 0..Cardinality(EpiVars)} :
        \A i, j \in 1..Len(m) : i # j => m[i] # m[j]}

\* variant of EpiLoad: an absent file read as an empty table
EpiLoadMissingAsEmpty(var, file) ==
    IF file.state = "bad" THEN [err |-> "ValueError", rows |-> <<>>]
    ELSE [err  |-> "none",
          rows |-> [i \in 1..Len(file.rows) |->
                      [country |-> file.rows[i].country,
                       year |-> file.rows[i].year, variable |-> var]]]

\* lines 103-130, one pass of the loop: the exception it raises, or the long
\* table it appends
EpiLoad(var, file) ==
    IF file.state = "absent" THEN [err |-> "FileNotFoundError", rows |-> <<>>]
    ELSE IF file.state = "bad" THEN [err |-> "ValueError", rows |-> <<>>]
    ELSE [err  |-> "none",
          rows |-> [i \in 1..Len(file.rows) |->
                      [country |-> file.rows[i].country,
                       year |-> file.rows[i].year, variable |-> var]]]

\* pd.concat(all_dfs, ignore_index=True)
RECURSIVE Concat(_)
Concat(tables) ==
    IF tables = <<>> THEN <<>> ELSE Head(tables) \o Concat(Tail(tables))

---------------------------------------------------------------------------
(* Inputs of the data handler calls *)

e_1 == <<"e", "_", "1">>
e_2 == <<"e", "_", "2">>
e_x_2 == <<"e", "_", "x", "_", "2">>
e_x == <<"e", "_", "x">>
g_2 == <<"g", "_", "2">>
h_2 == <<"h", "_", "2">>

\* column names of the tables given to reshape_long_HDI
ReshapePool == <<e_1, e_2, e_x_2, e_x, g_2, h_2>>

\* headers of the HDI file, as read_csv gives them
HdiPool == <<<<"E", "_", "1">>, e_2, <<" ", "e", " ", "3", " ">>>>

Mappings ==
    {<<>>, (<<"e">> :> "Edu"), (<<"e">> :> "Edu") @@ (<<"g">> :> "Gni")}

CountryArgs ==
    {[kind |-> "none", v |-> <<>>],
     [kind |-> "str", v |-> <<"u">>],
     [kind |-> "list", v |-> <<<<"F">>, <<"u">>>>]}

RECURSIVE PickCols(_, _, _)
PickCols(pool, S, i) ==
    IF i > Len(pool) THEN <<>>
    ELSE (IF i \in S THEN <<pool[i]>> ELSE <<>>) \o PickCols(pool, S, i + 1)

\* the wide tables: at most MaxCols columns of the pool, at most MaxRows rows;
\* the first cell of a row is missing or "0", the others hold "7"
WideTables(pool) ==
    UNION {
        LET cols == PickCols(pool, S, 1)
            RowSet == [country : {<<"U">>, <<"f">>},
                       cells : {[c \in 1..Len(cols) |->
                                    IF c = 1 THEN first ELSE "7"] :
                                first \in {NaN, "0"}}]
        IN  [ids : BOOLEAN, cols : {cols},
             rows : UNION {[1..n -> RowSet] : n \in 0..MaxRows}]
        : S \in {T \in SUBSET (1..Len(pool)) : Cardinality(T) <= MaxCols}}

---------------------------------------------------------------------------
(* The state machine *)

NoRet == [kind |-> "unset", table |-> <<>>, data |-> {}]

Init ==
    /\ pc = "idle" /\ op = "none" /\ ret = NoRet /\ exc = "none"
    /\ diag = FALSE /\ catalog_ok = TRUE
    /\ indicators = <<>> /\ indicator_dict = <<>>
    /\ start_year = None /\ end_year = None /\ top_n = 10
    /\ pos = 0 /\ all_data = {} /\ fetched = <<>> /\ failed = {}
    /\ results = <<>> /\ total_possible = 0 /\ top = <<>>
    /\ df = [ids |-> TRUE, cols |-> <<>>, rows |-> <<>>]
    /\ mapping = <<>> /\ countries = [kind |-> "none", v |-> <<>>]
    /\ long_df = <<>>
    /\ epi_map = <<>> /\ folder = [v \in EpiVars |-> [state |-> "absent", rows |-> <<>>]]
    /\ all_dfs = <<>>

\* reshape_long_HDI(df, indicators), called on its own
ReshapeCall ==
    /\ pc = "idle"
    /\ \E d \in WideTables(ReshapePool), m \in Mappings :
          LET r == reshape_long_HDI(d, m)
          IN  /\ df' = d /\ mapping' = m
              /\ long_df' = r.rows
              /\ exc' = r.err
              /\ ret' = IF r.err = "none"
                        THEN [kind |-> "table", table |-> r.rows, data |-> {}]
                        ELSE NoRet
    /\ op' = "reshape" /\ pc' = "done"
    /\ UNCHANGED <<rankerVars, epiVars, countries, start_year, end_year>>

\* get_data_HDI(filepath, indicators, countries, start_year, end_year); the
\* file's headers are distinct once standardized
HdiCall ==
    /\ pc = "idle"
    /\ \E d \in WideTables(HdiPool), m \in Mappings, cs \in CountryArgs,
          sy \in YearArgs, ey \in YearArgs :
          LET r == reshape_long_HDI(StandardizeColumns(d), m)
          IN  /\ df' = d /\ mapping' = m /\ countries' = cs
              /\ start_year' = sy /\ end_year' = ey
              /\ long_df' = r.rows
              /\ exc' = r.err
              /\ ret' = IF r.err = "none"
                        THEN [kind |-> "table",
                              table |-> FilterLong(r.rows, cs, sy, ey),
                              data |-> {}]
                        ELSE NoRet
    /\ op' = "hdi" /\ pc' = "done"
    /\ UNCHANGED <<rankerVars, epiVars>>

\* rank_indicators_by_completeness(source, start_year, end_year, top_n), lines
\* 13-17: the catalog is retrieved before the try block is entered
RankCall ==
    /\ pc = "idle"
    /\ \E sy \in Years, ey \in Years, n \in TopNs, cat \in Catalogs :
          /\ start_year' = sy /\ end_year' = ey /\ top_n' = n
          /\ indicators' = cat
          /\ indicator_dict' = DictItems(cat, <<>>)
    /\ catalog_ok' = TRUE
    /\ op' = "rank" /\ pc' = "try"
    /\ UNCHANGED <<ret, exc, diag, pos, all_data, fetched, failed, results,
                   total_possible, top, handlerVars, epiVars>>

\* line 13 raises: wbdata.get_indicators fails, outside of any try block
RankCatalogFails ==
    /\ pc = "idle"
    /\ \E sy \in Years, ey \in Years, n \in TopNs :
          start_year' = sy /\ end_year' = ey /\ top_n' = n
    /\ catalog_ok' = FALSE
    /\ exc' = "Exception"
    /\ op' = "rank" /\ pc' = "done"
    /\ UNCHANGED <<ret, diag, indicators, indicator_dict, pos, all_data, fetched,
                   failed, results, total_possible, top, handlerVars, epiVars>>

\* line 21: date_range; a year below MINYEAR raises ValueError inside the try
\* block, which lines 58-62 catch
RankDateRange ==
    /\ pc = "try"
    /\ IF start_year < MINYEAR \/ end_year < MINYEAR
       THEN /\ diag' = TRUE
            /\ ret' = [kind |-> "none_pair", table |-> <<>>, data |-> {}]
            /\ pc' = "done"
       ELSE /\ pc' = "fetch"
            /\ UNCHANGED <<diag, ret>>
    /\ UNCHANGED <<op, exc, catalog_ok, indicators, indicator_dict, start_year,
                   end_year, top_n, pos, all_data, fetched, failed, results,
                   total_possible, top, handlerVars, epiVars>>

\* lines 25-35, one pass of the fetch loop
RankFetch ==
    /\ pc = "fetch"
    /\ pos < Len(indicator_dict)
    /\ LET code == indicator_dict[pos + 1].code
       IN  \E resp \in Responses(start_year, end_year) :
              /\ all_data' = all_data \cup FetchRows(code, resp)
              /\ failed' = IF resp.kind = "ok" THEN failed ELSE failed \cup {code}
              /\ fetched' = Append(fetched, code)
    /\ pos' = pos + 1
    /\ UNCHANGED <<pc, op, ret, exc, diag, catalog_ok, indicators, indicator_dict,
                   start_year, end_year, top_n, results, total_possible, top,
                   handlerVars, epiVars>>

\* lines 38-50: the data frame, total_possible and the completeness loop
RankCalc ==
    /\ pc = "fetch"
    /\ pos = Len(indicator_dict)
    /\ total_possible' = TotalPossible(all_data, start_year, end_year)
    /\ results' = CalcResults(indicator_dict, all_data, start_year, end_year)
    /\ pc' = "sort"
    /\ UNCHANGED <<op, ret, exc, diag, catalog_ok, indicators, indicator_dict,
                   start_year, end_year, top_n, pos, all_data, fetched, failed,
                   top, handlerVars, epiVars>>

\* lines 53-56: sort and return
RankSortReturn ==
    /\ pc = "sort"
    /\ \E t \in SortValues(results) :
          /\ top' = t
          /\ ret' = [kind |-> "pair", table |-> Returned(t, top_n),
                     data |-> all_data]
    /\ pc' = "done"
    /\ UNCHANGED <<op, exc, diag, catalog_ok, indicators, indicator_dict,
                   start_year, end_year, top_n, pos, all_data, fetched, failed,
                   results, total_possible, handlerVars, epiVars>>

\* get_data_EPI(indicators, countries, start_year, end_year, folder_path)
EpiCall ==
    /\ pc = "idle"
    /\ \E m \in EpiMaps, f \in [EpiVars -> EpiFiles], cs \in CountryArgs,
          sy \in YearArgs, ey \in YearArgs :
          /\ epi_map' = m /\ folder' = f /\ countries' = cs
          /\ start_year' = sy /\ end_year' = ey
    /\ all_dfs' = <<>> /\ pos' = 0
    /\ op' = "epi" /\ pc' = "epi_loop"
    /\ UNCHANGED <<ret, exc, diag, catalog_ok, indicators, indicator_dict, top_n,
                   all_data, fetched, failed, results, total_possible, top,
                   df, mapping, long_df>>

\* lines 102-130, one pass of the loop over the mapping
EpiLoop ==
    /\ pc = "epi_loop"
    /\ pos < Len(epi_map)
    /\ LET r == EpiLoad(epi_map[pos + 1], folder[epi_map[pos + 1]])
       IN  IF r.err = "none"
           THEN /\ all_dfs' = Append(all_dfs, r.rows)
                /\ pos' = pos + 1
                /\ UNCHANGED <<pc, exc>>
           ELSE /\ exc' = r.err
                /\ pc' = "done"
                /\ UNCHANGED <<all_dfs, pos>>
    /\ UNCHANGED <<op, ret, diag, catalog_ok, indicators, indicator_dict,
                   start_year, end_year, top_n, all_data, fetched, failed,
                   results, total_possible, top, handlerVars, epi_map, folder>>

\* lines 133-144: concat, the filters, reset_index. pd.concat of no table
\* raises ValueError. The year filter compares with the bounds as given:
\* against None the comparison raises TypeError or is False for every row,
\* depending on the version of the data frame library
EpiFinish ==
    /\ pc = "epi_loop"
    /\ pos = Len(epi_map)
    /\ IF all_dfs = <<>>
       THEN exc' = "ValueError" /\ UNCHANGED ret
       ELSE IF start_year = None \/ end_year = None
       THEN \/ exc' = "TypeError" /\ UNCHANGED ret
            \/ /\ ret' = [kind |-> "table", table |-> <<>>, data |-> {}]
               /\ UNCHANGED exc
       ELSE /\ ret' = [kind |-> "table",
                       table |-> FilterLong(Concat(all_dfs), countries,
                                            start_year, end_year),
                       data |-> {}]
            /\ UNCHANGED exc
    /\ pc' = "done"
    /\ UNCHANGED <<op, diag, catalog_ok, indicators, indicator_dict,
                   start_year, end_year, top_n, pos, all_data, fetched, failed,
                   results, total_possible, top, handlerVars, epiVars>>

Next ==
    \/ ReshapeCall
    \/ HdiCall
    \/ RankCall
    \/ RankCatalogFails
    \/ RankDateRange
    \/ RankFetch
    \/ RankCalc
    \/ RankSortReturn
    \/ EpiCall
    \/ EpiLoop
    \/ EpiFinish

Spec == Init /\ [][Next]_vars

---------------------------------------------------------------------------
(* Claims *)

RankDone == op = "rank" /\ pc = "done"
RankReturnedTable == RankDone /\ ret.kind = "pair"

\* the completeness loop has run
RankCalculated == op = "rank" /\ (pc = "sort" \/ (pc = "done" /\ ret.kind = "pair"))

\* the codes of the dict's keys, in catalog order
DictCodes == [i \in 1..Len(indicator_dict) |-> indicator_dict[i].code]

\* C1: when wbdata.get_indicators raises, the ranker catches the failure,
\* emits a diagnostic and returns (None, None); nothing propagates to the
\* caller.
C1_CatalogFailureCaught ==
    (RankDone /\ ~catalog_ok) =>
        (exc = "none" /\ diag /\ ret.kind = "none_pair")

\* C2: in the fetch loop an indicator whose fetch or processing failed has no
\* row in the accumulated table, every indicator of the catalog is passed to
\* the fetch in catalog order whatever failed before it, and once the loop has
\* started the call ends by returning a ranked table.
C2_FailedIndicatorIsolated ==
    (op = "rank" /\ pc \in {"fetch", "sort", "done"} /\ catalog_ok) =>
        /\ \A r \in all_data : r[1] \notin failed
        /\ fetched = SubSeq(DictCodes, 1, pos)
        /\ (pc \in {"sort", "done"} /\ (pc = "done" => fetched # <<>>)) =>
                pos = Len(indicator_dict)
        /\ (pc = "done" /\ failed # {}) =>
                (exc = "none" /\ ret.kind = "pair"
                 /\ Len(ret.table) = Len(indicator_dict))

\* C2 witness: a returned ranking in which the first indicator failed and a
\* later one delivered rows.
C2_Witness ==
    /\ RankReturnedTable
    /\ Len(fetched) = 3
    /\ fetched[1] \in failed
    /\ fetched[3] \notin failed
    /\ \E r \in all_data : r[1] = fetched[3]

\* C3: a returned table has exactly one row for each indicator of the catalog,
\* also for those with no data point or a failed fetch, whatever top_n is.
C3_OneRowPerIndicator ==
    RankReturnedTable =>
        /\ \A k \in 1..Len(indicators) :
              Cardinality({j \in 1..Len(ret.table) :
                              ret.table[j].code = indicators[k].id}) = 1
        /\ Len(ret.table) = Cardinality({indicators[k].id : k \in 1..Len(indicators)})

\* C3 witness: top_n = 1, three indicators, one of them failed, three rows.
C3_Witness ==
    /\ RankReturnedTable
    /\ top_n = 1
    /\ Len(ret.table) = 3
    /\ failed # {}
    /\ \E j \in 1..3 : ret.table[j].count = 0 /\ ret.table[j].code \in failed
    /\ \E j \in 1..3 : ret.table[j].count > 0

\* position of a code in the catalog dict
DictPos(code) == CHOOSE i \in 1..Len(indicator_dict) : indicator_dict[i].code = code

C5_CompletenessBounds ==
    RankCalculated =>
        \A i \in 1..Len(results) :
            LET c == results[i].completeness
            IN  /\ c[2] > 0
                /\ total_possible > 0 => (0 <= c[1] /\ c[1] <= c[2])
                /\ total_possible = 0 => c[1] = 0

\* C5 witness: total_possible > 0, one indicator complete (ratio 1) and one
\* strictly between 0 and 1.
C5_Witness ==
    /\ RankReturnedTable
    /\ total_possible > 0
    /\ \E i \in 1..Len(results) :
          results[i].completeness[1] = results[i].completeness[2]
    /\ \E i \in 1..Len(results) :
          /\ 0 < results[i].completeness[1]
          /\ results[i].completeness[1] < results[i].completeness[2]

\* the first position of the mapping whose file is absent (0 if none)
FirstAbsent ==
    LET A == {i \in 1..Len(epi_map) : folder[epi_map[i]].state = "absent"}
    IN  IF A = {} THEN 0 ELSE CHOOSE i \in A : \A j \in A : i <= j

\* C6: get_data_EPI raises FileNotFoundError when it reaches the first
\* indicator whose file is absent, however many files it loaded before, and
\* returns no table then.
C6_MissingFileFatal ==
    (op = "epi" /\ FirstAbsent > 0
        /\ \A i \in 1..(FirstAbsent - 1) : folder[epi_map[i]].state = "ok") =>
        /\ pos < FirstAbsent
        /\ pc = "done" =>
              /\ exc = "FileNotFoundError"
              /\ ret.kind = "unset"
              /\ Len(all_dfs) = FirstAbsent - 1

\* C6 witness: the second file is absent, the first one was loaded with rows.
C6_Witness ==
    /\ op = "epi" /\ pc = "done"
    /\ FirstAbsent = 2
    /\ exc = "FileNotFoundError"
    /\ Len(all_dfs) = 1 /\ Len(all_dfs[1]) > 0

\* the reshaped rows that pass the country filter of get_data_HDI
HdiCountryFiltered == SelectSeq(long_df, LAMBDA r : CountryKeep(r.country, countries))

\* C7: the year filter of get_data_HDI keeps a row iff start_year <= year <=
\* end_year, a bound that is None not restricting.
C7_YearFilterInclusive ==
    (op = "hdi" /\ pc = "done" /\ exc = "none") =>
        ret.table = SelectSeq(HdiCountryFiltered,
                        LAMBDA r : /\ (start_year = None \/ ~(r.year < start_year[1]))
                                   /\ (end_year = None \/ ~(r.year > end_year[1])))

\* C7 witness: start_year = end_year = 2 with rows of year 2 (kept) and of
\* year 3 = end_year + 1 (removed).
C7_Witness ==
    /\ op = "hdi" /\ pc = "done" /\ exc = "none"
    /\ start_year = Some(2) /\ end_year = Some(2)
    /\ \E i \in 1..Len(HdiCountryFiltered) : HdiCountryFiltered[i].year = 3
    /\ \E i \in 1..Len(HdiCountryFiltered) : HdiCountryFiltered[i].year = 2
    /\ ret.table # <<>>
    /\ \A i \in 1..Len(ret.table) : ret.table[i].year = 2

\* the value columns of df all end in an integer
AllYearsParse ==
    \A i \in 1..Len(df.cols) :
        IsValueVar(df.cols[i], mapping) => IsInt(RSplit(df.cols[i])[2])

\* number of identified value columns of df
NumValueCols == Cardinality({i \in 1..Len(df.cols) : IsValueVar(df.cols[i], mapping)})

\* C8: for a wide table with R rows and C identified value columns, C = 0 and
\* R = 0 included, reshape_long_HDI returns a long table of exactly R x C rows.
C8_ReshapeRowCount ==
    (op = "reshape" /\ pc = "done" /\ df.ids /\ AllYearsParse) =>
        /\ exc = "none"
        /\ ret.kind = "table"
        /\ Len(ret.table) = Len(df.rows) * NumValueCols

\* C9: total_possible is (distinct countries of the whole accumulated table) x
\* (end_year - start_year + 1), and it is the denominator of every
\* indicator's completeness.
C9_SharedDenominator ==
    RankCalculated =>
        LET G == Cardinality({r[2] : r \in all_data}) * (end_year - start_year + 1)
        IN  /\ total_possible = G
            /\ Len(results) = Len(indicator_dict)
            /\ \A i \in 1..Len(results) :
                  LET n == Cardinality({r \in all_data : r[1] = indicator_dict[i].code})
                  IN  /\ results[i].count = n
                      /\ results[i].completeness = IF G > 0 THEN <<n, G>> ELSE <<0, 1>>

\* C9 witness: an indicator with data from fewer countries than the table
\* holds, so its ratio differs from the one over its own countries.
C9_Witness ==
    /\ RankReturnedTable
    /\ \E i \in 1..Len(results) :
          LET own == {r[2] : r \in {x \in all_data : x[1] = results[i].code}}
          IN  /\ own # {}
              /\ Cardinality(own) < Cardinality({r[2] : r \in all_data})
              /\ results[i].completeness[2]
                    > Cardinality(own) * (end_year - start_year + 1)

\* C10: a value column whose metric (the text before its last '_') is no key
\* of the mapping does not make reshape_long_HDI raise: the lookup never
\* raises, and the rows of that column are emitted with that metric and a
\* missing metric_name.
C10_UnmappedMetricIsNull ==
    (op = "reshape" /\ pc = "done" /\ df.ids) =>
        /\ exc # "KeyError"
        /\ (AllYearsParse /\ Len(df.rows) > 0 /\ NumValueCols > 0) => exc = "none"
        /\ exc = "none" =>
              \A i \in 1..Len(df.cols) :
                  (IsValueVar(df.cols[i], mapping)
                      /\ RSplit(df.cols[i])[1] \notin DOMAIN mapping) =>
                      Cardinality({k \in 1..Len(ret.table) :
                          /\ ret.table[k].metric = RSplit(df.cols[i])[1]
                          /\ ret.table[k].year = ParseInt(RSplit(df.cols[i])[2])
                          /\ ret.table[k].metric_name = NaN}) = Len(df.rows)

\* C10 witness: column e_x_2 under a mapping with key e only, two rows.
C10_Witness ==
    /\ op = "reshape" /\ pc = "done" /\ exc = "none"
    /\ Len(df.rows) = 2
    /\ \E k \in 1..Len(ret.table) :
          /\ ret.table[k].metric = <<"e", "_", "x">>
          /\ ret.table[k].metric_name = NaN
    /\ \E k \in 1..Len(ret.table) : ret.table[k].metric_name = "Edu"

====
